---- MODULE Spec2Model ----
(***************************************************************************)
(* Model of the opencode-named-memory plugin (src/index.ts).               *)
(*                                                                         *)
(* The plugin keeps one process-wide Active Session State (activeMemory,   *)
(* activeName, activeShouldCreate, dbDir) that is read and written by      *)
(* asynchronous tool calls and event handlers.  JavaScript runs one        *)
(* handler at a time, but every `await` is a point where another handler   *)
(* may run: each action below is the code between two awaits of one call,  *)
(* and a state of the model is a point where any other caller can run.     *)
(*                                                                         *)
(* A name is a sequence of one-character strings.  A message text is held  *)
(* run-length encoded: <<c, n>> stands for n copies of the character c.    *)
(***************************************************************************)
EXTENDS Integers, Sequences, FiniteSets, TLC

(***************************************************************************)
(* Bounds of the model.                                                    *)
(***************************************************************************)
MaxTasks == 3
MaxNameLen == 4

Tasks == 1..MaxTasks

(***************************************************************************)
(* Program constants.                                                      *)
(***************************************************************************)
maxMemories == 7
TruncateOver == 600
TruncateTo == 550

VARIABLES
    activeMemory,        \* the open handle (an index of handles), 0 for null
    activeName,          \* the active identity, NoName for null
    activeShouldCreate,  \* the handle the cached predicate was derived from, 0 for null
    dbDir,               \* the cached base directory, NoDir for null
    handles,             \* the handles the store factory has returned
    files,               \* the records persisted, each with the file it is in
    openCalls,           \* number of open calls issued to the store factory
    storeCalls,          \* number of calls issued on store handles
    task,                \* the calls in flight and finished
    evaluated            \* the function applied to one input, and what it returned

vars == <<activeMemory, activeName, activeShouldCreate, dbDir, handles, files,
          openCalls, storeCalls, task, evaluated>>

\* no function has been applied
NotEvaluated == [op |-> "none"]

active == <<activeMemory, activeName, activeShouldCreate>>

NoName == <<>>
NoDir == "none"
ConfigDir == "config/named-memory"
FallbackDir == "home/.config/opencode/named-memory"

(***************************************************************************)
(* Characters and names.                                                   *)
(***************************************************************************)
LowerOf(c) ==
    CASE c = "A" -> "a"
      [] c = "B" -> "b"
      [] OTHER -> c

IsAlnum(c) == c \in {"a", "b", "d", "e", "f", "l", "t", "u", "0", "1"}

IsSpace(c) == c \in {" ", "\t"}

toLowerCase(s) == [i \in 1..Len(s) |-> LowerOf(s[i])]

RECURSIVE trimStart(_)
trimStart(s) ==
    IF s # <<>> /\ IsSpace(Head(s)) THEN trimStart(Tail(s)) ELSE s

RECURSIVE trimEnd(_)
trimEnd(s) ==
    IF s # <<>> /\ IsSpace(s[Len(s)]) THEN trimEnd(SubSeq(s, 1, Len(s) - 1)) ELSE s

trim(s) == trimEnd(trimStart(s))

\* s.replace(/[^a-z0-9]+/g, "-"): every maximal run of other characters becomes one hyphen
RECURSIVE replaceNonAlnumRuns(_, _)
replaceNonAlnumRuns(s, inRun) ==
    IF s = <<>> THEN <<>>
    ELSE IF IsAlnum(Head(s)) THEN <<Head(s)>> \o replaceNonAlnumRuns(Tail(s), FALSE)
    ELSE IF inRun THEN replaceNonAlnumRuns(Tail(s), TRUE)
    ELSE <<"-">> \o replaceNonAlnumRuns(Tail(s), TRUE)

\* s.replace(/-+/g, "-")
RECURSIVE collapseHyphens(_, _)
collapseHyphens(s, inRun) ==
    IF s = <<>> THEN <<>>
    ELSE IF Head(s) # "-" THEN <<Head(s)>> \o collapseHyphens(Tail(s), FALSE)
    ELSE IF inRun THEN collapseHyphens(Tail(s), TRUE)
    ELSE <<"-">> \o collapseHyphens(Tail(s), TRUE)

stripLeadingHyphen(s) == IF s # <<>> /\ Head(s) = "-" THEN Tail(s) ELSE s

\* s.replace(/^-|-$/g, ""): one hyphen at the start, and one at the end of what is left
stripEdgeHyphens(s) ==
    LET a == IF s # <<>> /\ Head(s) = "-" THEN Tail(s) ELSE s
    IN  IF a # <<>> /\ a[Len(a)] = "-" THEN SubSeq(a, 1, Len(a) - 1) ELSE a

DefaultName == <<"d", "e", "f", "a", "u", "l", "t">>

sanitizeName(raw) ==
    LET s == stripEdgeHyphens(
                 collapseHyphens(
                     replaceNonAlnumRuns(trim(toLowerCase(raw)), FALSE), FALSE))
    IN  IF s = <<>> THEN DefaultName ELSE s

\* path.join(dir, `named-memory-${name}.db`)
DbPathOf(dir, name) == <<dir>> \o <<"named-memory-">> \o name \o <<".db">>

\* the raw names the activate tool is called with
RawNames == { <<" ", "A", "!">>, <<"b">> }

(***************************************************************************)
(* Texts, run-length encoded.                                              *)
(***************************************************************************)
RECURSIVE StrLen(_)
StrLen(s) == IF s = <<>> THEN 0 ELSE Head(s)[2] + StrLen(Tail(s))

\* s.slice(0, n)
RECURSIVE StrSlice0(_, _)
StrSlice0(s, n) ==
    IF s = <<>> \/ n <= 0 THEN <<>>
    ELSE IF Head(s)[2] <= n THEN <<Head(s)>> \o StrSlice0(Tail(s), n - Head(s)[2])
    ELSE << <<Head(s)[1], n>> >>

Ellipsis == << <<".", 3>> >>

\* the i-th character of s, counted from 0 ("" beyond the end)
RECURSIVE CharAt(_, _)
CharAt(s, i) ==
    IF s = <<>> THEN ""
    ELSE IF i < Head(s)[2] THEN Head(s)[1]
    ELSE CharAt(Tail(s), i - Head(s)[2])

(***************************************************************************)
(* The calls.  One record per call of a tool or event handler.             *)
(***************************************************************************)
NoSnapshot == [mem |-> 0, name |-> NoName, pred |-> 0, busy |-> FALSE]

IdleTask ==
    [kind    |-> "none",      \* which tool or handler
     pc      |-> "idle",      \* the await the call is suspended at
     status  |-> "none",      \* pending, returned or raised, as the host sees the call
     ret     |-> "none",      \* which text the call returned
     said    |-> NoName,      \* the identity named in the returned text or injected block
     raw     |-> <<>>,        \* args.name
     dir     |-> NoDir,       \* const dir
     name    |-> NoName,      \* const name
     h       |-> 0,           \* the handle the outstanding store call was issued on
     p       |-> 0,           \* the predicate the outstanding predicate call was issued on
     text    |-> <<>>,        \* the text handed to the predicate and to add
     tag     |-> NoName,      \* metadata name handed to add
     verdict |-> "none",      \* what the predicate answered
     logged  |-> FALSE,       \* console.warn or console.error was called
     ctx     |-> "absent",    \* output.context of a compaction event
     query   |-> <<>>,        \* the query handed to searchHybrid
     limit   |-> 0,           \* the limit handed to searchHybrid
     before  |-> NoSnapshot]  \* the Active Session State when the call was made

\* calls are numbered in the order they are made
CanStart(t) ==
    /\ task[t].pc = "idle"
    /\ \A u \in Tasks : u < t => task[u].pc # "idle"

InFlight(u) == task[u].pc \notin {"idle", "done"}

Snapshot ==
    [mem |-> activeMemory, name |-> activeName, pred |-> activeShouldCreate,
     busy |-> \E u \in Tasks : task[u].kind = "use" /\ InFlight(u)]

\* the call is over: the argument of an activate call, what the call returned and
\* the handle an add or a search wrote or read through stay, its local variables
\* are gone
Finish(t, rec) ==
    task' = [task EXCEPT ![t] =
        [IdleTask EXCEPT !.kind = rec.kind, !.pc = "done", !.status = rec.status,
                         !.raw = IF rec.kind = "use" THEN rec.raw ELSE <<>>,
                         !.ret = rec.ret, !.said = rec.said,
                         !.h = IF rec.kind \in {"add", "compact"} THEN rec.h ELSE 0,
                         !.logged = rec.logged, !.ctx = rec.ctx,
                         !.before = rec.before]]

Init ==
    /\ activeMemory = 0
    /\ activeName = NoName
    /\ activeShouldCreate = 0
    /\ dbDir = NoDir
    /\ handles = <<>>
    /\ files = {}
    /\ openCalls = 0
    /\ storeCalls = 0
    /\ task = [t \in Tasks |-> IdleTask]
    /\ evaluated = NotEvaluated

(***************************************************************************)
(* named_memory_use.                                                       *)
(***************************************************************************)
\* catch (err) of namedMemoryUse.execute
ActivateFailed(rec) ==
    [rec EXCEPT !.status = "returned", !.ret = "ActivateFailed", !.logged = TRUE]

AlreadyUsingInverted(name) == activeName # name /\ activeMemory # 0

\* the test of line 62
AlreadyUsing(name) == activeName = name /\ activeMemory # 0

\* execute is entered and getDbDir is called: the cached directory is returned, or
\* client.path.get() is awaited
CallUse(t, raw) ==
    /\ CanStart(t)
    /\ LET rec == [IdleTask EXCEPT !.kind = "use", !.status = "pending",
                                   !.raw = raw, !.before = Snapshot]
       IN  task' = [task EXCEPT ![t] =
                IF dbDir # NoDir
                THEN [rec EXCEPT !.pc = "mkdir", !.dir = dbDir]
                ELSE [rec EXCEPT !.pc = "path"]]
    /\ UNCHANGED <<evaluated, activeMemory, activeName, activeShouldCreate, dbDir, handles,
                   files, openCalls, storeCalls>>

\* client.path.get() settles; getDbDir sets dbDir and returns it, and mkdir is issued
PathGet(t, outcome) ==
    /\ task[t].kind = "use" /\ task[t].pc = "path"
    /\ dbDir' = IF outcome = "data" THEN ConfigDir ELSE FallbackDir
    /\ task' = [task EXCEPT ![t].pc = "mkdir", ![t].dir = dbDir',
                            ![t].logged = (outcome # "data")]
    /\ UNCHANGED <<evaluated, activeMemory, activeName, activeShouldCreate, handles, files,
                   openCalls, storeCalls>>

\* mkdir -p settles; lines 59-66 up to the await of createAgentMemory
Mkdir(t, ok) ==
    /\ task[t].kind = "use" /\ task[t].pc = "mkdir"
    /\ LET name == sanitizeName(task[t].raw)
           rec == [task[t] EXCEPT !.name = name]
       IN  IF ~ok
           THEN /\ Finish(t, ActivateFailed(task[t]))
                /\ UNCHANGED openCalls
           ELSE IF AlreadyUsing(name)
           THEN /\ Finish(t, [rec EXCEPT !.status = "returned", !.ret = "Already",
                                         !.said = name])
                /\ UNCHANGED openCalls
           ELSE /\ task' = [task EXCEPT ![t] = [rec EXCEPT !.pc = "open"]]
                /\ openCalls' = openCalls + 1
    /\ UNCHANGED <<evaluated, activeMemory, activeName, activeShouldCreate, dbDir, handles,
                   files, storeCalls>>

\* createAgentMemory settles; line 66's assignment and line 67 up to its await
Open(t, ok) ==
    /\ task[t].kind = "use" /\ task[t].pc = "open"
    /\ IF ~ok
       THEN /\ Finish(t, ActivateFailed(task[t]))
            /\ UNCHANGED <<activeMemory, handles, storeCalls>>
       ELSE /\ handles' = Append(handles,
                    [path |-> DbPathOf(task[t].dir, task[t].name),
                     open |-> TRUE, closes |-> 0])
            /\ activeMemory' = Len(handles')
            /\ storeCalls' = storeCalls + 1
            /\ task' = [task EXCEPT ![t].pc = "pred", ![t].h = activeMemory']
    /\ UNCHANGED <<evaluated, activeName, activeShouldCreate, dbDir, files, openCalls>>

\* shouldCreateMemory settles; line 67's assignment, line 68 and the return
Pred(t, ok) ==
    /\ task[t].kind = "use" /\ task[t].pc = "pred"
    /\ IF ~ok
       THEN /\ Finish(t, ActivateFailed(task[t]))
            /\ UNCHANGED <<activeName, activeShouldCreate>>
       ELSE /\ activeShouldCreate' = task[t].h
            /\ activeName' = task[t].name
            /\ Finish(t, [task[t] EXCEPT !.status = "returned", !.ret = "Switched",
                                         !.said = task[t].name])
    /\ UNCHANGED <<evaluated, activeMemory, dbDir, handles, files, openCalls, storeCalls>>

(***************************************************************************)
(* named_memory_search, named_memory_add, named_memory_stats.              *)
(***************************************************************************)
\* the guard `if (!activeMemory) return "No active named memory. ..."`
NoActiveStore == activeMemory = 0

NoActiveThrows(rec) == [rec EXCEPT !.status = "raised"]

NoActiveResult(rec) == [rec EXCEPT !.status = "returned", !.ret = "NoActive"]

ToolRethrows(rec, what) == [rec EXCEPT !.status = "raised"]

\* catch (err) of the three tools: the error is rendered as the returned text,
\* `${err.message || String(err)}`; what a collaborator throws is an Error or another
\* value that is not null or undefined
ToolFailed(rec, what) == [rec EXCEPT !.status = "returned", !.ret = what]

\* the records a search on handle h can return: those of the file h was opened on
FileOf(h) == {r \in files : r.path = handles[h].path}

CallSearch(t) ==
    /\ CanStart(t)
    /\ LET rec == [IdleTask EXCEPT !.kind = "search", !.status = "pending"]
       IN  IF NoActiveStore
           THEN /\ Finish(t, NoActiveResult(rec))
                /\ UNCHANGED storeCalls
           ELSE /\ task' = [task EXCEPT ![t] =
                        [rec EXCEPT !.pc = "search", !.h = activeMemory]]
                /\ storeCalls' = storeCalls + 1
    /\ UNCHANGED <<evaluated, activeMemory, activeName, activeShouldCreate, dbDir, handles,
                   files, openCalls>>

\* searchHybrid settles: it throws, or returns some of the records of the file
SearchDone(t, outcome) ==
    /\ task[t].kind = "search" /\ task[t].pc = "search"
    /\ outcome = "hits" => FileOf(task[t].h) # {}
    /\ outcome # "throw" => handles[task[t].h].open
    /\ Finish(t, CASE outcome = "throw" -> ToolFailed(task[t], "SearchFailed")
                   [] outcome = "empty" ->
                        [task[t] EXCEPT !.status = "returned", !.ret = "SearchEmpty",
                                        !.said = activeName]
                   [] OTHER ->
                        [task[t] EXCEPT !.status = "returned", !.ret = "SearchHits"])
    /\ UNCHANGED <<evaluated, activeMemory, activeName, activeShouldCreate, dbDir, handles,
                   files, openCalls, storeCalls>>

ManualText == << <<"m", 30>> >>

CallAdd(t) ==
    /\ CanStart(t)
    /\ LET rec == [IdleTask EXCEPT !.kind = "add", !.status = "pending"]
       IN  IF NoActiveStore
           THEN /\ Finish(t, NoActiveResult(rec))
                /\ UNCHANGED storeCalls
           ELSE /\ task' = [task EXCEPT ![t] =
                        [rec EXCEPT !.pc = "add", !.h = activeMemory,
                                    !.text = ManualText, !.tag = activeName]]
                /\ storeCalls' = storeCalls + 1
    /\ UNCHANGED <<evaluated, activeMemory, activeName, activeShouldCreate, dbDir, handles,
                   files, openCalls>>

\* the record add(text, metadata) persists through handle h
Stored(h, text, tag, source) ==
    [path |-> handles[h].path, name |-> tag, source |-> source, text |-> text]

\* add settles
AddDone(t, ok) ==
    /\ task[t].kind = "add" /\ task[t].pc = "add"
    /\ ok => handles[task[t].h].open
    /\ IF ok
       THEN /\ files' = files \cup
                     {Stored(task[t].h, task[t].text, task[t].tag, "manual")}
            /\ Finish(t, [task[t] EXCEPT !.status = "returned", !.ret = "Added",
                                         !.said = activeName])
       ELSE /\ Finish(t, ToolFailed(task[t], "AddFailed"))
            /\ UNCHANGED files
    /\ UNCHANGED <<evaluated, activeMemory, activeName, activeShouldCreate, dbDir, handles,
                   openCalls, storeCalls>>

\* getStats is synchronous: the whole call is one step
CallStats(t, ok) ==
    /\ CanStart(t)
    /\ LET rec == [IdleTask EXCEPT !.kind = "stats", !.status = "pending"]
       IN  IF NoActiveStore
           THEN /\ Finish(t, NoActiveResult(rec))
                /\ UNCHANGED storeCalls
           ELSE /\ ok => handles[activeMemory].open
                /\ Finish(t, IF ok
                             THEN [rec EXCEPT !.status = "returned", !.ret = "Stats",
                                              !.h = activeMemory, !.said = activeName]
                             ELSE ToolFailed([rec EXCEPT !.h = activeMemory],
                                             "StatsError"))
                /\ storeCalls' = storeCalls + 1
    /\ UNCHANGED <<evaluated, activeMemory, activeName, activeShouldCreate, dbDir, handles,
                   files, openCalls>>

(***************************************************************************)
(* message.updated and ingestUserMessage.                                  *)
(***************************************************************************)
ShortText == << <<"a", 40>> >>
CapText == << <<"a", 549>>, <<"b", 51>> >>
OverCapText == << <<"a", 549>>, <<"b", 52>> >>
LongJson == << <<"{", 1>>, <<"a", 550>>, <<"b", 248>>, <<"}", 1>> >>

\* msg.content: nothing, a string, an object (text is its JSON form), or an object
\* JSON.stringify throws on
Contents ==
    { [type |-> "absent", text |-> <<>>],
      [type |-> "string", text |-> <<>>],
      [type |-> "string", text |-> ShortText],
      [type |-> "string", text |-> CapText],
      [type |-> "string", text |-> OverCapText],
      [type |-> "object", text |-> LongJson],
      [type |-> "circular", text |-> <<>>] }

Roles == {"user", "assistant"}

\* !msg?.content
Falsy(content) ==
    \/ content.type = "absent"
    \/ content.type = "string" /\ content.text = <<>>

InsightCutAtCap(raw) ==
    IF StrLen(raw) > TruncateOver THEN StrSlice0(raw, TruncateOver) \o Ellipsis ELSE raw

\* line 83
Insight(raw) ==
    IF StrLen(raw) > TruncateOver THEN StrSlice0(raw, TruncateTo) \o Ellipsis ELSE raw

\* the guard of line 80
IngestSkips(role, content) ==
    activeMemory = 0 \/ activeShouldCreate = 0 \/ Falsy(content) \/ role # "user"

HandlerAwaitsIngest(ingestPc) == IF ingestPc = "done" THEN "returned" ELSE "pending"

\* the handler does not await ingestUserMessage: it has returned whatever ingest does
HandlerAfterSpawn(ingestPc) == "returned"

\* .catch(console.error)
IngestRejected(rec) == [rec EXCEPT !.logged = TRUE]

\* the event is delivered: the handler runs, and ingestUserMessage up to its first await
MessageUpdated(t, role, content) ==
    /\ CanStart(t)
    /\ LET rec == [IdleTask EXCEPT !.kind = "message", !.raw = content.text]
       IN  IF role # "user" \/ IngestSkips(role, content)
           THEN /\ Finish(t, [rec EXCEPT !.status = HandlerAfterSpawn("done")])
                /\ UNCHANGED storeCalls
           ELSE IF content.type = "circular"
           THEN /\ Finish(t, IngestRejected(
                                [rec EXCEPT !.status = HandlerAfterSpawn("done")]))
                /\ UNCHANGED storeCalls
           ELSE /\ task' = [task EXCEPT ![t] =
                        [rec EXCEPT !.status = HandlerAfterSpawn("gate"),
                                    !.pc = "gate", !.p = activeShouldCreate,
                                    !.text = Insight(content.text)]]
                /\ storeCalls' = storeCalls + 1
    /\ UNCHANGED <<evaluated, activeMemory, activeName, activeShouldCreate, dbDir, handles,
                   files, openCalls>>

\* the predicate settles; on true, add is called on what activeMemory is now
Gate(t, outcome) ==
    /\ task[t].kind = "message" /\ task[t].pc = "gate"
    /\ LET rec == [task[t] EXCEPT !.verdict = outcome]
       IN  CASE outcome = "throw" ->
                  /\ Finish(t, IngestRejected(rec))
                  /\ UNCHANGED storeCalls
             [] outcome = "false" ->
                  /\ Finish(t, rec)
                  /\ UNCHANGED storeCalls
             [] OTHER ->
                  /\ task' = [task EXCEPT ![t] =
                          [rec EXCEPT !.pc = "ingest", !.h = activeMemory,
                                      !.tag = activeName]]
                  /\ storeCalls' = storeCalls + 1
    /\ UNCHANGED <<evaluated, activeMemory, activeName, activeShouldCreate, dbDir, handles,
                   files, openCalls>>

\* add settles
IngestDone(t, ok) ==
    /\ task[t].kind = "message" /\ task[t].pc = "ingest"
    /\ ok => handles[task[t].h].open
    /\ IF ok
       THEN /\ files' = files \cup
                    {Stored(task[t].h, task[t].text, task[t].tag, "auto_user_message")}
            /\ Finish(t, task[t])
       ELSE /\ Finish(t, IngestRejected(task[t]))
            /\ UNCHANGED files
    /\ UNCHANGED <<evaluated, activeMemory, activeName, activeShouldCreate, dbDir, handles,
                   openCalls, storeCalls>>

(***************************************************************************)
(* experimental.session.compacting and injectMemories.                     *)
(***************************************************************************)
DefaultHint == <<"current coding task">>

\* pluginConfig.maxMemories: left out, or a count
MaxConfigured == 3

Configs ==
    {[set |-> FALSE, value |-> 0]} \cup {[set |-> TRUE, value |-> n] : n \in 0..MaxConfigured}

\* pluginConfig.maxMemories ?? 7
MaxMemoriesOf(cfg) == IF cfg.set THEN cfg.value ELSE maxMemories

\* input.prompt and the content of the last message: nothing, a string (its pieces in
\* order, a quote a piece of its own), an object (text is its JSON form), or an object
\* JSON.stringify throws on
NoValue == [type |-> "absent", text |-> <<>>]

Inputs ==
    { [prompt |-> NoValue, last |-> NoValue],
      [prompt |-> [type |-> "string", text |-> <<"fix the build">>],
       last |-> [type |-> "string", text |-> <<"hello">>]],
      [prompt |-> NoValue, last |-> [type |-> "string", text |-> <<"hello">>]],
      [prompt |-> [type |-> "cyclic", text |-> <<>>], last |-> NoValue] }

\* line 100
TaskHint(input) ==
    IF ~Falsy(input.prompt) THEN input.prompt
    ELSE IF ~Falsy(input.last) THEN input.last
    ELSE [type |-> "string", text |-> DefaultHint]

\* line 101, for a hint JSON.stringify does not throw on
QueryOf(hint) == hint.text

\* line 103: the arguments of searchHybrid
SearchRequest(max, input) == [query |-> QueryOf(TaskHint(input)), limit |-> max + 10]

\* exp(-ageHours / 72), in thousandths, for the ages of Candidates
ExpDecay(ageHours) ==
    CASE ageHours = 0 -> 1000
      [] ageHours = 24 -> 717
      [] ageHours = 72 -> 368
      [] OTHER -> 62

\* Math.max(0.55, Math.exp(-ageHours / 72)), in thousandths
Boost(ageHours) == IF ExpDecay(ageHours) > 550 THEN ExpDecay(ageHours) ELSE 550

\* (m.score || 0) * boost; score is in thousandths
FinalScore(m) == (IF m.hasScore THEN m.score ELSE 0) * Boost(m.age)

RECURSIVE InsertByScoreUnstable(_, _)
InsertByScoreUnstable(m, sorted) ==
    IF sorted = <<>> THEN <<m>>
    ELSE IF FinalScore(Head(sorted)) > FinalScore(m)
         THEN <<Head(sorted)>> \o InsertByScoreUnstable(m, Tail(sorted))
         ELSE <<m>> \o sorted

\* Array.prototype.sort with (a, b) => b.finalScore - a.finalScore: stable, descending
RECURSIVE InsertByScore(_, _)
InsertByScore(m, sorted) ==
    IF sorted = <<>> THEN <<m>>
    ELSE IF FinalScore(Head(sorted)) >= FinalScore(m)
         THEN <<Head(sorted)>> \o InsertByScore(m, Tail(sorted))
         ELSE <<m>> \o sorted

RECURSIVE SortByScore(_)
SortByScore(ms) ==
    IF ms = <<>> THEN <<>>
    ELSE InsertByScore(ms[Len(ms)], SortByScore(SubSeq(ms, 1, Len(ms) - 1)))

Slice0Inclusive(ms, n) == SubSeq(ms, 1, IF Len(ms) < n + 1 THEN Len(ms) ELSE n + 1)

\* .slice(0, n), n not negative
Slice0(ms, n) == SubSeq(ms, 1, IF Len(ms) < n THEN Len(ms) ELSE n)

\* lines 105-113 with maxMemories = max
RankTop(ms, max) == Slice0(SortByScore(ms), max)

\* lines 105-113
Rank(ms) == RankTop(ms, maxMemories)

\* lines 117-128: the block pushed, its entries numbered from 1
Block(name, ms) ==
    [name |-> name, entries |-> [i \in 1..Len(ms) |-> [n |-> i, id |-> ms[i].id]]]

\* new Date(m.createdAt).toISOString() throws a RangeError on a date that does not parse
RenderFails(top) == \E i \in 1..Len(top) : top[i].date = "bad"

\* a candidate with a score, createdAt ageHours ago
Scored(id, score, ageHours) ==
    [id |-> id, hasScore |-> TRUE, score |-> score, age |-> ageHours, date |-> "ok"]

\* a candidate whose createdAt does not parse: its finalScore is NaN, and where sort puts
\* it among other candidates is left to the engine, so it is the only one of its list
Undated(id) == [id |-> id, hasScore |-> TRUE, score |-> 500, age |-> 0, date |-> "bad"]

\* what searchHybrid may return; id is the place in the list
Candidates ==
    { <<>>,
      << Scored(1, 900, 200), Scored(2, 600, 0) >>,
      << Scored(1, 400, 72), Scored(2, 400, 200), Scored(3, 300, 24) >>,
      << Undated(1) >> }

\* an entry another hook put in output.context
PriorEntry == [name |-> <<"prior">>, entries |-> <<>>]

\* output.context before the event
Contexts == {"absent", <<PriorEntry>>}

Replaced(ctx, block) == <<block>>

\* lines 123-128
Pushed(ctx, block) == Append(IF ctx = "absent" THEN <<>> ELSE ctx, block)

\* lines 105-128 once searchHybrid has returned ms: output.context afterwards, the
\* identity on the block, and whether line 130 logged
Injected(max, name, ctx, ms) ==
    LET top == RankTop(ms, max)
    IN  IF top = <<>> THEN [ctx |-> ctx, said |-> NoName, logged |-> FALSE]
        ELSE IF RenderFails(top) THEN [ctx |-> ctx, said |-> NoName, logged |-> TRUE]
        ELSE [ctx |-> Pushed(ctx, Block(name, top)), said |-> name, logged |-> FALSE]

RecallRethrows(rec) == [rec EXCEPT !.status = "raised"]

\* the catch of lines 129-131, and the handler of line 142 returning
RecallFailed(rec) == [rec EXCEPT !.status = "returned", !.logged = TRUE]

\* the handler awaits injectMemories, which runs up to the await of searchHybrid
CallCompact(t, input, ctx) ==
    /\ CanStart(t)
    /\ LET rec == [IdleTask EXCEPT !.kind = "compact", !.status = "pending", !.ctx = ctx]
           req == SearchRequest(maxMemories, input)
       IN  IF NoActiveStore
           THEN /\ Finish(t, [rec EXCEPT !.status = "returned"])
                /\ UNCHANGED storeCalls
           ELSE IF TaskHint(input).type = "cyclic"
           THEN /\ Finish(t, RecallFailed(rec))
                /\ UNCHANGED storeCalls
           ELSE /\ task' = [task EXCEPT ![t] =
                        [rec EXCEPT !.pc = "recall", !.h = activeMemory,
                                    !.query = req.query, !.limit = req.limit]]
                /\ storeCalls' = storeCalls + 1
    /\ UNCHANGED <<evaluated, activeMemory, activeName, activeShouldCreate, dbDir, handles,
                   files, openCalls>>

\* searchHybrid settles: lines 105-128, or the catch of line 129
Recall(t, ok, ms) ==
    /\ task[t].kind = "compact" /\ task[t].pc = "recall"
    /\ ok => handles[task[t].h].open
    /\ LET r == Injected(maxMemories, activeName, task[t].ctx, ms)
       IN  Finish(t,
               IF ~ok \/ r.logged THEN RecallFailed(task[t])
               ELSE [task[t] EXCEPT !.status = "returned", !.said = r.said,
                                    !.ctx = r.ctx])
    /\ UNCHANGED <<evaluated, activeMemory, activeName, activeShouldCreate, dbDir, handles,
                   files, openCalls, storeCalls>>

(***************************************************************************)
(* destroy.                                                                *)
(***************************************************************************)
CallDestroy(t) ==
    /\ CanStart(t)
    /\ LET rec == [IdleTask EXCEPT !.kind = "destroy", !.status = "pending"]
       IN  IF activeMemory = 0
           THEN /\ Finish(t, [rec EXCEPT !.status = "returned"])
                /\ UNCHANGED storeCalls
           ELSE /\ task' = [task EXCEPT ![t] =
                        [rec EXCEPT !.pc = "close", !.h = activeMemory]]
                /\ storeCalls' = storeCalls + 1
    /\ UNCHANGED <<evaluated, activeMemory, activeName, activeShouldCreate, dbDir, handles,
                   files, openCalls>>

\* close settles; destroy has no catch
Closed(t, ok) ==
    /\ task[t].kind = "destroy" /\ task[t].pc = "close"
    /\ IF ok
       THEN /\ handles' = [handles EXCEPT ![task[t].h].open = FALSE,
                                          ![task[t].h].closes = @ + 1]
            /\ Finish(t, [task[t] EXCEPT !.status = "returned"])
       ELSE /\ Finish(t, [task[t] EXCEPT !.status = "raised"])
            /\ UNCHANGED handles
    /\ UNCHANGED <<evaluated, activeMemory, activeName, activeShouldCreate, dbDir, files,
                   openCalls, storeCalls>>

Next ==
    \/ \E t \in Tasks, raw \in RawNames : CallUse(t, raw)
    \/ \E t \in Tasks, outcome \in {"data", "nodata", "throw"} : PathGet(t, outcome)
    \/ \E t \in Tasks, ok \in BOOLEAN : Mkdir(t, ok)
    \/ \E t \in Tasks, ok \in BOOLEAN : Open(t, ok)
    \/ \E t \in Tasks, ok \in BOOLEAN : Pred(t, ok)
    \/ \E t \in Tasks : CallSearch(t)
    \/ \E t \in Tasks, outcome \in {"throw", "empty", "hits"} : SearchDone(t, outcome)
    \/ \E t \in Tasks : CallAdd(t)
    \/ \E t \in Tasks, ok \in BOOLEAN : AddDone(t, ok)
    \/ \E t \in Tasks, ok \in BOOLEAN : CallStats(t, ok)
    \/ \E t \in Tasks, role \in Roles, content \in Contents :
           MessageUpdated(t, role, content)
    \/ \E t \in Tasks, outcome \in {"true", "false", "throw"} : Gate(t, outcome)
    \/ \E t \in Tasks, ok \in BOOLEAN : IngestDone(t, ok)
    \/ \E t \in Tasks, input \in Inputs, ctx \in Contexts : CallCompact(t, input, ctx)
    \/ \E t \in Tasks, ok \in BOOLEAN, ms \in Candidates : Recall(t, ok, ms)
    \/ \E t \in Tasks : CallDestroy(t)
    \/ \E t \in Tasks, ok \in BOOLEAN : Closed(t, ok)

Spec == Init /\ [][Next]_vars

(***************************************************************************)
(* The functions on their own: one input is drawn and the function applied. *)
(***************************************************************************)
NameAlphabet == {"a", "A", "1", " ", "-", "!"}

NameInputs == UNION {[1..n -> NameAlphabet] : n \in 0..MaxNameLen}

EvalSanitize(raw) ==
    /\ evaluated = NotEvaluated
    /\ evaluated' = [op |-> "sanitize", in |-> raw, out |-> sanitizeName(raw)]
    /\ UNCHANGED <<activeMemory, activeName, activeShouldCreate, dbDir, handles,
                   files, openCalls, storeCalls, task>>

\* a candidate without a score
Unscored(id, ageHours) ==
    [id |-> id, hasScore |-> FALSE, score |-> 0, age |-> ageHours, date |-> "ok"]

\* candidate lists: those of Candidates, exact ties between an old and a new candidate,
\* missing scores, and lists longer than every maxMemories in use
RankInputs ==
    Candidates \cup
    { << Scored(1, 550, 0), Scored(2, 1000, 200) >>,
      << Scored(1, 1000, 200), Scored(2, 550, 0) >>,
      << Unscored(1, 0), Scored(2, 100, 200), Unscored(3, 24) >>,
      << Scored(1, 200, 0), Scored(2, 200, 0), Scored(3, 900, 24), Scored(4, 100, 72),
         Scored(5, 200, 0) >>,
      << Scored(1, 100, 0), Scored(2, 900, 200), Scored(3, 500, 24), Scored(4, 500, 24),
         Scored(5, 1000, 72), Scored(6, 50, 0), Scored(7, 700, 0), Scored(8, 300, 200),
         Scored(9, 800, 24) >> }

\* inputs of a compaction event: those of Inputs, hints with single quotes in them, an
\* empty prompt, and an object as the prompt
HintInputs ==
    Inputs \cup
    { [prompt |-> [type |-> "string", text |-> <<"O", "'", "Brien">>], last |-> NoValue],
      [prompt |-> [type |-> "string", text |-> <<>>],
       last |-> [type |-> "string", text |-> <<"'", "it", "'", "'">>]],
      [prompt |-> [type |-> "object", text |-> <<"{\"q\":\"it", "'", "s\"}">>],
       last |-> [type |-> "string", text |-> <<"hello">>]] }

\* the identity active during the event
EvalName == <<"a">>

\* one session.compacting event from start to end under one configuration: the handler of
\* lines 141-143 and injectMemories, lines 96-132
EvalInject(cfg, isActive, input, ctx, ok, ms) ==
    /\ evaluated = NotEvaluated
    /\ LET max == MaxMemoriesOf(cfg)
           rec == [op |-> "inject", max |-> max, active |-> isActive, input |-> input,
                   before |-> ctx, outcome |-> "inactive", found |-> <<>>,
                   requests |-> <<>>, ctx |-> ctx, said |-> NoName, logged |-> FALSE,
                   status |-> "pending"]
           r == Injected(max, EvalName, ctx, ms)
       IN  evaluated' =
               IF ~isActive THEN [rec EXCEPT !.status = "returned"]
               ELSE IF TaskHint(input).type = "cyclic"
               THEN [RecallFailed(rec) EXCEPT !.outcome = "hint failed"]
               ELSE IF ~ok
               THEN [RecallFailed(rec) EXCEPT !.outcome = "search failed",
                                              !.requests = <<SearchRequest(max, input)>>]
               ELSE IF r.logged
               THEN [RecallFailed(rec) EXCEPT !.outcome = "render failed", !.found = ms,
                                              !.requests = <<SearchRequest(max, input)>>]
               ELSE [rec EXCEPT !.status = "returned", !.outcome = "retrieved",
                                !.found = ms, !.ctx = r.ctx, !.said = r.said,
                                !.requests = <<SearchRequest(max, input)>>]
    /\ UNCHANGED <<activeMemory, activeName, activeShouldCreate, dbDir, handles,
                   files, openCalls, storeCalls, task>>

PureNext ==
    \/ \E raw \in NameInputs : EvalSanitize(raw)
    \/ \E cfg \in Configs, isActive \in BOOLEAN, input \in HintInputs, ctx \in Contexts,
          ok \in BOOLEAN, ms \in RankInputs :
            EvalInject(cfg, isActive, input, ctx, ok, ms)

PureSpec == Init /\ [][PureNext]_vars

(***************************************************************************)
(* Properties.                                                             *)
(***************************************************************************)
\* the identity a storage path is the file of
StoreOf(path) == SubSeq(path, 3, Len(path) - 1)

HandleName(h) == StoreOf(handles[h].path)

OpenHandles == {h \in DOMAIN handles : handles[h].open}

\* handle, identity and predicate are all absent, or all belong to one store
Consistent ==
    \/ activeMemory = 0 /\ activeName = NoName /\ activeShouldCreate = 0
    \/ /\ activeMemory # 0
       /\ HandleName(activeMemory) = activeName
       /\ activeShouldCreate = activeMemory

\* no other activate call overlapped call t or was made after it
Quiet(t) ==
    /\ ~task[t].before.busy
    /\ \A u \in Tasks : u > t => task[u].kind # "use"

StateBefore(t) == <<task[t].before.mem, task[t].before.name, task[t].before.pred>>

\* C1: while an activate call that switches away from an active store is in
\* progress, handle, identity and predicate belong to one store at every point
\* where another caller can run.
C1_NoMismatchDuringSwitch ==
    \A t \in Tasks :
        (/\ task[t].kind = "use" /\ InFlight(t) /\ Quiet(t)
         /\ task[t].before.mem # 0
         /\ task[t].before.pred = task[t].before.mem
         /\ HandleName(task[t].before.mem) = task[t].before.name)
            => Consistent

\* C2: an activate call that returned the failure text left the Active Session
\* State as it was when the call was made (no other activate call interfering).
C2_FailedActivateKeepsState ==
    \A t \in Tasks :
        (/\ task[t].kind = "use" /\ task[t].pc = "done"
         /\ task[t].ret = "ActivateFailed" /\ Quiet(t))
            => active = StateBefore(t)

\* C3: at most one store handle is open (opened and not yet closed).
C3_AtMostOneOpenHandle == Cardinality(OpenHandles) <= 1

\* C4: an activate call made while its canonical name is the active identity and a
\* handle is set, with no other activate call overlapping or following it, issues
\* no open call and leaves handle, identity and predicate as they were.
C4_SameNameIsNoOp ==
    \A t \in Tasks :
        (/\ task[t].kind = "use" /\ Quiet(t)
         /\ task[t].before.mem # 0
         /\ sanitizeName(task[t].raw) = task[t].before.name)
            => /\ task[t].pc \notin {"open", "pred"}
               /\ task[t].ret # "Switched"
               /\ task[t].h = 0
               /\ active = StateBefore(t)

C4_Witness ==
    \E t \in Tasks :
        /\ task[t].kind = "use" /\ Quiet(t) /\ task[t].before.mem # 0
        /\ task[t].pc = "done" /\ task[t].ret = "Already"
        /\ sanitizeName(task[t].raw) = task[t].before.name
        /\ task[t].raw # task[t].before.name

\* C5: every record is in the file of the identity it is tagged with, and the
\* identity an add result names is the one whose file the record was written to.
C5_StoresIsolated ==
    /\ \A r \in files : r.name # NoName => StoreOf(r.path) = r.name
    /\ \A t \in Tasks :
           (task[t].kind = "add" /\ task[t].ret = "Added" /\ task[t].said # NoName)
               => HandleName(task[t].h) = task[t].said

\* C6: the Ingest Gate calls add only for non-empty content, and only after the
\* predicate of the very store it adds to returned true.
C6_AddOnlyAfterOwnPredicate ==
    \A t \in Tasks :
        (task[t].kind = "message" /\ task[t].pc = "ingest")
            => /\ task[t].raw # <<>>
               /\ task[t].verdict = "true"
               /\ task[t].p # 0
               /\ handles[task[t].p].path = handles[task[t].h].path

\* C7: the text handed to the predicate and to add is the normalized content when
\* that has at most 600 characters, else its first 550 characters and then "...",
\* 553 in all; no record the gate persisted is longer than 600 characters.
C7_InsightIsCappedContent ==
    /\ \A t \in Tasks :
           (task[t].kind = "message" /\ task[t].pc \in {"gate", "ingest"})
               => LET raw == task[t].raw
                      insight == task[t].text
                  IN  IF StrLen(raw) <= 600
                      THEN insight = raw
                      ELSE /\ StrLen(insight) = 553
                           /\ \A i \in 0..549 : CharAt(insight, i) = CharAt(raw, i)
                           /\ \A i \in 550..552 : CharAt(insight, i) = "."
    /\ \A r \in files : r.source = "auto_user_message" => StrLen(r.text) <= 600

C7_Witness ==
    /\ \E t \in Tasks :
           /\ task[t].kind = "message" /\ task[t].pc = "ingest"
           /\ StrLen(task[t].raw) = 601
    /\ \E r \in files : r.source = "auto_user_message" /\ StrLen(r.text) = 553

\* C8: the message.updated handler has returned at every point of the ingest it
\* started, however long the store takes, and it never raises.
C8_HandlerNeverWaitsNorRaises ==
    \A t \in Tasks :
        task[t].kind = "message" => task[t].status = "returned"

C8_Witness ==
    \E t, u \in Tasks :
        /\ task[t].kind = "message" /\ task[t].pc = "gate"
        /\ task[u].kind = "message" /\ task[u].pc = "done" /\ task[u].logged

\* C9: a search, add or stats call made while no store is active returns the
\* guidance text in that step, and it, a message event and a compaction event
\* issue no store call and change neither the Active Session State, the files
\* nor output.context.
C9_NoActiveStoreGuidance ==
    [][\A t \in Tasks :
          (/\ activeMemory = 0
           /\ task[t].pc = "idle" /\ task'[t].pc # "idle"
           /\ task'[t].kind \in {"search", "add", "stats", "message", "compact"})
              => /\ task'[t].pc = "done"
                 /\ task'[t].kind \in {"search", "add", "stats"}
                        => task'[t].status = "returned" /\ task'[t].ret = "NoActive"
                 /\ task'[t].status = "returned"
                 /\ task'[t].ctx \in Contexts
                 /\ active' = active
                 /\ storeCalls' = storeCalls
                 /\ files' = files /\ handles' = handles]_vars

C9_Witness ==
    \E t, u, v \in Tasks :
        /\ activeMemory = 0
        /\ task[t].kind = "search" /\ task[t].ret = "NoActive"
        /\ task[u].kind = "add" /\ task[u].ret = "NoActive"
        /\ task[v].kind = "stats" /\ task[v].ret = "NoActive"

ToolKinds == {"use", "search", "add", "stats"}

TextResults ==
    {"Already", "Switched", "ActivateFailed", "NoActive", "SearchEmpty", "SearchHits",
     "SearchFailed", "Added", "AddFailed", "Stats", "StatsError"}

Sanitized == evaluated.op = "sanitize"

\* x with every letter in upper case
UpperOf(x) == [i \in 1..Len(x) |-> IF x[i] = "a" THEN "A" ELSE x[i]]

\* x with every character that is neither a letter, a digit nor a space doubled
\* and exchanged for the other one
RECURSIVE Repunctuated(_)
Repunctuated(x) ==
    IF x = <<>> THEN <<>>
    ELSE IF Head(x) = "!" THEN <<"-", "-">> \o Repunctuated(Tail(x))
    ELSE IF Head(x) = "-" THEN <<"!", "!">> \o Repunctuated(Tail(x))
    ELSE <<Head(x)>> \o Repunctuated(Tail(x))

\* C17: the sanitized name is a non-empty token over a-z, 0-9 and hyphen with no
\* leading, trailing or doubled hyphen, is "default" when the input has no letter or
\* digit, is a fixed point of the sanitizer, and is the same for inputs that differ
\* in case, surrounding whitespace or punctuation runs, and so is the store path.
C17_SanitizerTokenIdempotent ==
    Sanitized =>
        LET x == evaluated.in
            y == evaluated.out
        IN  /\ y # <<>>
            /\ \A i \in 1..Len(y) : y[i] \in {"a", "b", "d", "e", "f", "l", "t", "u",
                                               "0", "1", "-"}
            /\ y[1] # "-" /\ y[Len(y)] # "-"
            /\ \A i \in 1..(Len(y) - 1) : ~(y[i] = "-" /\ y[i + 1] = "-")
            /\ (\A i \in 1..Len(x) : x[i] \notin {"a", "A", "1"}) => y = DefaultName
            /\ (\E i \in 1..Len(x) : x[i] \in {"a", "A", "1"}) => y # DefaultName
            /\ sanitizeName(y) = y
            /\ sanitizeName(UpperOf(x)) = y
            /\ sanitizeName(<<" ">> \o x \o <<" ", " ">>) = y
            /\ sanitizeName(Repunctuated(x)) = y
            /\ DbPathOf(ConfigDir, sanitizeName(UpperOf(x))) = DbPathOf(ConfigDir, y)

C17_Witness ==
    /\ Sanitized
    /\ evaluated.in = <<"!", "A", " ", "1">>
    /\ evaluated.out = <<"a", "-", "1">>

(***************************************************************************)
(* Recall: what one compaction event leaves behind.                         *)
(***************************************************************************)
InjectedEvent == evaluated.op = "inject"

\* the blocks the event added to output.context
PriorLen == IF InjectedEvent /\ evaluated.before # "absent" THEN Len(evaluated.before) ELSE 0

NewBlocks ==
    IF evaluated.ctx = "absent" THEN <<>>
    ELSE SubSeq(evaluated.ctx, PriorLen + 1, Len(evaluated.ctx))

OneBlockAppended ==
    /\ evaluated.ctx # "absent"
    /\ Len(evaluated.ctx) = PriorLen + 1
    /\ evaluated.before # "absent" => SubSeq(evaluated.ctx, 1, PriorLen) = evaluated.before
    /\ evaluated.ctx[PriorLen + 1].name = EvalName

\* output.context is what it was, absent included
ContextUntouched ==
    IF evaluated.before = "absent" THEN evaluated.ctx = "absent"
    ELSE evaluated.ctx # "absent" /\ evaluated.ctx = evaluated.before

\* C12 as stated: one block is appended after the prior list whenever the search returned
\* at least one candidate, and output.context is untouched when no store is active, when
\* no candidate is returned or when the pipeline fails.
C12_AppendsWheneverCandidates ==
    InjectedEvent =>
        /\ OneBlockAppended \/ ContextUntouched
        /\ evaluated.outcome = "retrieved" /\ evaluated.found # <<>> => OneBlockAppended
        /\ evaluated.outcome # "retrieved" \/ evaluated.found = <<>> => ContextUntouched

\* C12 amended: one block is appended after the prior list exactly when at least one
\* candidate is left after the cut to maxMemories, which a configured maxMemories of 0
\* never leaves; in every other case output.context is untouched, absent included.
C12_AppendsWhenCandidatesLeft ==
    InjectedEvent =>
        /\ OneBlockAppended \/ ContextUntouched
        /\ evaluated.outcome = "retrieved" /\ evaluated.found # <<>> /\ evaluated.max > 0
               => OneBlockAppended
        /\ evaluated.outcome # "retrieved" \/ evaluated.found = <<>> \/ evaluated.max = 0
               => ContextUntouched

C12_Witness ==
    /\ InjectedEvent
    /\ PriorLen = 1
    /\ evaluated.outcome = "retrieved"
    /\ Len(evaluated.found) = 3
    /\ OneBlockAppended

RecallErrors == {"hint failed", "search failed", "render failed"}

\* C13: when the hint cannot be serialized, the search fails or a createdAt that does not
\* parse makes rendering fail, the error is logged, the session.compacting handler
\* returns normally and output.context is what it was.
C13_RecallFailureIsContained ==
    InjectedEvent =>
        /\ evaluated.status = "returned"
        /\ evaluated.outcome \in RecallErrors =>
               evaluated.logged /\ ContextUntouched /\ evaluated.said = NoName

C13_Witness ==
    /\ InjectedEvent
    /\ evaluated.outcome = "render failed"
    /\ evaluated.found # <<>>
    /\ evaluated.logged
    /\ evaluated.status = "returned"

\* the candidates the event retrieved, and the ids of the block's entries in order
Found == evaluated.found

Kept == IF Len(Found) < evaluated.max THEN Len(Found) ELSE evaluated.max

EntryIds == IF NewBlocks = <<>> THEN <<>>
            ELSE [i \in 1..Len(NewBlocks[1].entries) |-> NewBlocks[1].entries[i].id]

\* candidate a comes before candidate b: its finalScore is higher, or the same and it was
\* retrieved first
Precedes(a, b) ==
    \/ FinalScore(Found[a]) > FinalScore(Found[b])
    \/ FinalScore(Found[a]) = FinalScore(Found[b]) /\ a < b

\* the block is the first maxMemories candidates in descending finalScore, ties in
\* retrieval order, numbered from 1
RankedBlock ==
    /\ Len(EntryIds) = Kept
    /\ \A i \in 1..Kept : NewBlocks[1].entries[i].n = i /\ EntryIds[i] \in 1..Len(Found)
    /\ \A i, j \in 1..Kept : i < j => Precedes(EntryIds[i], EntryIds[j])
    /\ \A i \in 1..Kept : \A c \in 1..Len(Found) :
           (\A j \in 1..Kept : EntryIds[j] # c) => Precedes(EntryIds[i], c)

\* entry j is an older candidate with a higher raw score than entry i above it
OlderHigherBelow(i, j) ==
    /\ i < j
    /\ Found[EntryIds[j]].age > Found[EntryIds[i]].age
    /\ Found[EntryIds[j]].score > Found[EntryIds[i]].score

RECURSIVE DoubleQuotes(_)
DoubleQuotes(q) ==
    IF q = <<>> THEN <<>>
    ELSE (IF Head(q) = "'" THEN <<"'", "'">> ELSE <<Head(q)>>) \o DoubleQuotes(Tail(q))

\* the query the claim expects: the doubled text wrapped in double quotes
EscapeQuery(q) == <<"\"">> \o DoubleQuotes(q) \o <<"\"">>

\* C15: an event with an active store issues one searchHybrid request, its query the
\* escaped hint (prompt, else last message content, else the default, serialized when
\* not a string) and its limit maxMemories + 10.
C15_OneEscapedSearch ==
    InjectedEvent /\ evaluated.active =>
        /\ Len(evaluated.requests) = 1
        /\ evaluated.requests[1].limit = evaluated.max + 10
        /\ evaluated.requests[1].query = EscapeQuery(TaskHint(evaluated.input).text)

(***************************************************************************)
(* Teardown, overlapping activations, recall during a switch, directories.  *)
(***************************************************************************)
\* C16: a teardown with no active store issues nothing; with an open handle it issues
\* one close on that handle; with the handle already released by an earlier teardown
\* (no activation since) it issues no further close.
C16_TeardownIdempotent ==
    [][\A t \in Tasks :
          task[t].kind = "none" /\ task'[t].kind = "destroy" =>
              /\ activeMemory = 0 =>
                     storeCalls' = storeCalls /\ task'[t].pc = "done"
              /\ activeMemory # 0 /\ handles[activeMemory].open =>
                     /\ storeCalls' = storeCalls + 1
                     /\ task'[t].pc = "close" /\ task'[t].h = activeMemory
              /\ activeMemory # 0 /\ ~handles[activeMemory].open =>
                     storeCalls' = storeCalls /\ task'[t].pc = "done"]_vars

\* no activate call is in flight, and none has failed
ActivationsSettled ==
    \A t \in Tasks :
        task[t].kind = "use" => task[t].pc = "done" /\ task[t].ret # "ActivateFailed"

\* C18: whenever no activate call is in flight (none having failed), handle, identity
\* and predicate are all absent or all of one store, however the activate calls that
\* completed overlapped.
C18_ConsistentWhenSettled == ActivationsSettled => Consistent

\* C19: the identity on an injected block is the identity of the handle the search of
\* that event ran on.
C19_BlockTagIsSearchedStore ==
    \A t \in Tasks :
        (task[t].kind = "compact" /\ task[t].pc = "done" /\ task[t].said # NoName)
            => task[t].said = HandleName(task[t].h)

\* C20: every store file opened lies under one base directory, the one the first
\* resolution chose.
C20_OneBaseDirectory ==
    \A g, h \in DOMAIN handles : handles[g].path[1] = handles[h].path[1]

====
